---- MODULE Spec2Model ----
(***************************************************************************)
(* Model of the disk-sweeper Worker (src/src/models/worker.py): the three  *)
(* commands status / analyze / sweep acting on the immediate children of   *)
(* target_path, with the configuration set by reconfigure and the active   *)
(* names read from the cached machine configuration.                       *)
(*                                                                         *)
(* Sizes are bytes, size_mb / freed_mb / recoverable_mb are kept in        *)
(* hundredths of a MB (the code rounds them to 2 decimals), time is kept   *)
(* in ticks of 1/TicksPerDay day so that the truncation of timedelta.days  *)
(* is visible.                                                             *)
(***************************************************************************)
EXTENDS Integers, Sequences, FiniteSets, TLC

(* ------------------------------ bounds -------------------------------- *)

\* names an entry of target_path can carry
Names == {"cam1", "cam2", "cam3"}

\* recursive byte totals a directory can have: 5242 B rounds to 0.00 MB
\* and 131072 B (0.125 MB, a tie) to 0.12 MB
Sizes == {5242, 131072}

\* clock resolution: ticks per day
TicksPerDay == 2

\* the clock runs from MaxNow - 1 to MaxNow
MaxNow == 4

\* modification times (ticks) a directory can carry
MTimes == {0, 2}

\* values the configured days_old can take
DaysOldValues == {1, 2}

\* at most this many children are unreadable / undeletable
MaxFaulty == 1

\* at most this many names are listed as components of the cached config
MaxActive == 1

(* ------------------------- program constants -------------------------- *)

\* 1024 * 1024, the divisor of the size_mb conversion
BytesPerMb == 1048576

(* ------------------------------- state -------------------------------- *)

VARIABLES
    target,     \* "missing" | "dir": whether target_path exists
    fs,         \* Names -> entry: the immediate children of target_path
    active,     \* component names of the latest cached machine config
    now,        \* the wall clock, in ticks
    days_old,   \* self.days_old
    dry_run,    \* self.dry_run
    op,         \* the last command executed, "none" after any other step
    ret,        \* what that command returned
    pre,        \* history: fs as it was when that command started
    scanned,    \* history: the orphans in the order the scan appended them
    analysed,   \* history: the analysis the last sweep ran internally
    processed,  \* history: orphan names in the order the sweep loop took them
    vanished,   \* history: the directory another writer removed mid-sweep
    prev        \* history: the report of the sweep run immediately before

vars == <<target, fs, active, now, days_old, dry_run,
          op, ret, pre, scanned, analysed, processed, vanished, prev>>

Absent == [kind |-> "absent", mtime |-> 0, size |-> 0, fault |-> "none"]

File == [kind |-> "file", mtime |-> 0, size |-> 0, fault |-> "none"]

\* fault: "stat"  - item.stat() / the walk raises inside the per-item try
\*        "perm"  - shutil.rmtree raises PermissionError
\*        "other" - shutil.rmtree raises another exception
Faults == {"stat", "perm", "other"}

Dirs ==
    [kind : {"dir"}, mtime : MTimes, size : Sizes, fault : {"none"} \cup Faults]

Entries == {Absent, File} \cup Dirs

NoReturn == [none |-> TRUE]

NoPrev == [valid |-> FALSE, deleted |-> {}, errors |-> {}]

(* --------------------------- pure functions --------------------------- *)

\* round(num / den) to the nearest integer, ties to the even one: Python's
\* round() on a value the float represents exactly
RoundHalfEven(num, den) ==
    LET q == num \div den
        r == num % den
    IN  IF 2 * r < den THEN q
        ELSE IF 2 * r > den THEN q + 1
        ELSE IF q % 2 = 0 THEN q ELSE q + 1

\* round(size / (1024 * 1024), 2), in hundredths of a MB
SizeMb(bytes) == RoundHalfEven(bytes * 100, BytesPerMb)

\* (datetime.now() - mtime).days: whole days, rounded towards minus infinity
AgeDays(mtime, t) == (t - mtime) \div TicksPerDay

\* the orders in which iterdir() can produce the entries of target_path
Listings(f) ==
    LET present == {n \in Names : f[n].kind # "absent"}
        k == Cardinality(present)
    IN  {s \in [1..k -> present] : \A i, j \in 1..k : i # j => s[i] # s[j]}

\* variant: the threshold itself is not yet eligible
OrphanInfoStrict(name, e, t, thr) ==
    [name     |-> name,
     age_days |-> AgeDays(e.mtime, t),
     size_mb  |-> SizeMb(e.size),
     eligible |-> AgeDays(e.mtime, t) > thr]

\* the dict appended for one orphaned directory
OrphanInfo(name, e, t, thr) ==
    [name     |-> name,
     age_days |-> AgeDays(e.mtime, t),
     size_mb  |-> SizeMb(e.size),
     eligible |-> AgeDays(e.mtime, t) >= thr]

\* variant: the scan loop without the test against the active names
RECURSIVE ScanLoopNoActiveCheck(_, _, _, _, _)
ScanLoopNoActiveCheck(listing, f, act, t, thr) ==
    IF listing = <<>> THEN <<>>
    ELSE LET item == Head(listing)
             rest == ScanLoopNoActiveCheck(Tail(listing), f, act, t, thr)
         IN  IF f[item].kind # "dir" THEN rest
             ELSE IF f[item].fault = "stat" THEN rest
             ELSE <<OrphanInfo(item, f[item], t, thr)>> \o rest

\* the scan loop: directories only, not active, and dropped when the
\* per-item try raises
RECURSIVE ScanLoop(_, _, _, _, _)
ScanLoop(listing, f, act, t, thr) ==
    IF listing = <<>> THEN <<>>
    ELSE LET item == Head(listing)
             rest == ScanLoop(Tail(listing), f, act, t, thr)
         IN  IF f[item].kind # "dir" THEN rest
             ELSE IF item \in act THEN rest
             ELSE IF f[item].fault = "stat" THEN rest
             ELSE <<OrphanInfo(item, f[item], t, thr)>> \o rest

\* variant: x goes before the entries of equal size (an unstable sort)
RECURSIVE InsertDescUnstable(_, _)
InsertDescUnstable(x, s) ==
    IF s = <<>> THEN <<x>>
    ELSE IF Head(s).size_mb > x.size_mb
         THEN <<Head(s)>> \o InsertDescUnstable(x, Tail(s))
         ELSE <<x>> \o s

\* x goes after every entry at least as large: equal keys keep their order
RECURSIVE InsertDesc(_, _)
InsertDesc(x, s) ==
    IF s = <<>> THEN <<x>>
    ELSE IF Head(s).size_mb >= x.size_mb
         THEN <<Head(s)>> \o InsertDesc(x, Tail(s))
         ELSE <<x>> \o s

RECURSIVE SortInto(_, _)
SortInto(acc, s) ==
    IF s = <<>> THEN acc ELSE SortInto(InsertDesc(Head(s), acc), Tail(s))

\* orphans.sort(key=size_mb, reverse=True): stable, largest first
SortBySizeDesc(s) == SortInto(<<>>, s)

RECURSIVE SumSizeMb(_)
SumSizeMb(s) ==
    IF s = <<>> THEN 0 ELSE Head(s).size_mb + SumSizeMb(Tail(s))

EligibleOf(s) == SelectSeq(s, LAMBDA o : o.eligible)

\* the result returned when target_path does not exist
MissingAnalysis ==
    [error                |-> "Target path does not exist",
     active_resources     |-> {},
     orphaned_directories |-> <<>>,
     eligible_for_cleanup |-> 0,
     total_orphans        |-> 0,
     recoverable_mb       |-> 0]

\* the result returned when the enumeration of target_path raises
ScanFailedAnalysis(act) ==
    [error                |-> "Failed to scan",
     active_resources     |-> act,
     orphaned_directories |-> <<>>,
     eligible_for_cleanup |-> 0,
     total_orphans        |-> 0,
     recoverable_mb       |-> 0]

\* _analyze, given the order in which iterdir() lists the children and
\* whether the enumeration raises
AnalyzeResult(tgt, f, act, t, thr, listing, raises) ==
    IF tgt = "missing" THEN MissingAnalysis
    ELSE IF raises THEN ScanFailedAnalysis(act)
    ELSE LET orphans == ScanLoop(listing, f, act, t, thr)
             eligible == EligibleOf(orphans)
         IN  [active_resources     |-> act,
              orphaned_directories |-> SortBySizeDesc(orphans),
              eligible_for_cleanup |-> Len(eligible),
              total_orphans        |-> Len(orphans),
              recoverable_mb       |-> SumSizeMb(eligible)]

IsError(r) == "error" \in DOMAIN r

\* _get_status, given whether the enumeration raises
StatusResult(tgt, f, thr, dry, raises) ==
    LET dirs == {n \in Names : f[n].kind = "dir"}
        RECURSIVE Total(_)
        Total(S) ==
            IF S = {} THEN 0
            ELSE LET n == CHOOSE m \in S : TRUE
                 IN  (IF f[n].fault = "stat" THEN 0 ELSE f[n].size)
                     + Total(S \ {n})
        listed == tgt = "dir" /\ ~raises
    IN  [days_old        |-> thr,
         dry_run         |-> dry,
         exists          |-> tgt # "missing",
         directory_count |-> IF listed THEN Cardinality(dirs) ELSE 0,
         total_size_mb   |-> IF listed THEN SizeMb(Total(dirs)) ELSE 0]

(* ------------------------------- sweep -------------------------------- *)

\* what a failed rmtree leaves behind: nothing removed, or (partial) the
\* files it reached removed before it raised
AfterFailedRmtree(e, partial) ==
    IF partial /\ \E z \in Sizes : z < e.size
    THEN [e EXCEPT !.size = CHOOSE z \in Sizes : \A y \in Sizes : z <= y]
    ELSE e

\* variant: a successful rmtree that leaves the directory in place
RmtreeLeavesDirectory(f, name, gone, partial) ==
    IF name = gone
    THEN [exc |-> "other", fs |-> [f EXCEPT ![name] = Absent]]
    ELSE IF f[name].fault \in {"perm", "other"}
    THEN [exc |-> f[name].fault,
          fs  |-> [f EXCEPT ![name] = AfterFailedRmtree(f[name], partial)]]
    ELSE [exc |-> "none", fs |-> f]

\* shutil.rmtree(target_path / name): exc is "none" on success, "perm" for
\* PermissionError, "other" for any other exception. A directory another
\* writer removed since the scan (gone) raises FileNotFoundError.
Rmtree(f, name, gone, partial) ==
    IF name = gone
    THEN [exc |-> "other", fs |-> [f EXCEPT ![name] = Absent]]
    ELSE IF f[name].fault \in {"perm", "other"}
    THEN [exc |-> f[name].fault,
          fs  |-> [f EXCEPT ![name] = AfterFailedRmtree(f[name], partial)]]
    ELSE [exc |-> "none", fs |-> [f EXCEPT ![name] = Absent]]

\* variant: a failed deletion is logged but not recorded in errors
SweepStepDropsFailed(orphan, st, thr, dry, gone, partial) ==
    LET seen == [st EXCEPT !.processed = Append(@, orphan.name)]
    IN  IF ~orphan.eligible
        THEN [seen EXCEPT !.skipped =
                 Append(@, [name |-> orphan.name,
                            reason |-> <<orphan.age_days, thr>>])]
        ELSE IF dry
        THEN [seen EXCEPT !.deleted  = Append(@, orphan.name),
                          !.freed_mb = @ + orphan.size_mb]
        ELSE LET r == Rmtree(st.fs, orphan.name, gone, partial)
             IN  IF r.exc = "none"
                 THEN [seen EXCEPT !.fs       = r.fs,
                                   !.deleted  = Append(@, orphan.name),
                                   !.freed_mb = @ + orphan.size_mb]
                 ELSE [seen EXCEPT !.fs = r.fs]

\* variant: the dry_run flag is not consulted before rmtree
SweepStepIgnoresDryRun(orphan, st, thr, dry, gone, partial) ==
    LET seen == [st EXCEPT !.processed = Append(@, orphan.name)]
    IN  IF ~orphan.eligible
        THEN [seen EXCEPT !.skipped =
                 Append(@, [name |-> orphan.name,
                            reason |-> <<orphan.age_days, thr>>])]
        ELSE LET r == Rmtree(st.fs, orphan.name, gone, partial)
             IN  IF r.exc = "none"
                 THEN [seen EXCEPT !.fs       = r.fs,
                                   !.deleted  = Append(@, orphan.name),
                                   !.freed_mb = @ + orphan.size_mb]
                 ELSE [seen EXCEPT !.fs     = r.fs,
                                   !.errors =
                                       Append(@, [name  |-> orphan.name,
                                                  error |-> r.exc])]

\* variant: the eligible flag is not consulted, every orphan is deleted
SweepStepDeletesYoung(orphan, st, thr, dry, gone, partial) ==
    LET seen == [st EXCEPT !.processed = Append(@, orphan.name)]
    IN  IF dry
        THEN [seen EXCEPT !.deleted  = Append(@, orphan.name),
                          !.freed_mb = @ + orphan.size_mb]
        ELSE LET r == Rmtree(st.fs, orphan.name, gone, partial)
             IN  IF r.exc = "none"
                 THEN [seen EXCEPT !.fs       = r.fs,
                                   !.deleted  = Append(@, orphan.name),
                                   !.freed_mb = @ + orphan.size_mb]
                 ELSE [seen EXCEPT !.fs     = r.fs,
                                   !.errors =
                                       Append(@, [name  |-> orphan.name,
                                                  error |-> r.exc])]

\* one iteration of the loop over analysis["orphaned_directories"]
SweepStep(orphan, st, thr, dry, gone, partial) ==
    LET seen == [st EXCEPT !.processed = Append(@, orphan.name)]
    IN  IF ~orphan.eligible
        THEN [seen EXCEPT !.skipped =
                 Append(@, [name |-> orphan.name,
                            reason |-> <<orphan.age_days, thr>>])]
        ELSE IF dry
        THEN [seen EXCEPT !.deleted  = Append(@, orphan.name),
                          !.freed_mb = @ + orphan.size_mb]
        ELSE LET r == Rmtree(st.fs, orphan.name, gone, partial)
             IN  IF r.exc = "none"
                 THEN [seen EXCEPT !.fs       = r.fs,
                                   !.deleted  = Append(@, orphan.name),
                                   !.freed_mb = @ + orphan.size_mb]
                 ELSE [seen EXCEPT !.fs     = r.fs,
                                   !.errors =
                                       Append(@, [name  |-> orphan.name,
                                                  error |-> r.exc])]

\* variant: the first failed deletion ends the loop
RECURSIVE SweepLoopAbortsOnError(_, _, _, _, _, _)
SweepLoopAbortsOnError(orphans, st, thr, dry, gone, partial) ==
    IF orphans = <<>> \/ st.errors # <<>> THEN st
    ELSE SweepLoopAbortsOnError(
             Tail(orphans),
             SweepStep(Head(orphans), st, thr, dry, gone, partial),
             thr, dry, gone, partial)

\* the loop over analysis["orphaned_directories"], in list order
RECURSIVE SweepLoop(_, _, _, _, _, _)
SweepLoop(orphans, st, thr, dry, gone, partial) ==
    IF orphans = <<>> THEN st
    ELSE SweepLoop(Tail(orphans),
                   SweepStep(Head(orphans), st, thr, dry, gone, partial),
                   thr, dry, gone, partial)

SweepStart(f) ==
    [fs |-> f, deleted |-> <<>>, skipped |-> <<>>, errors |-> <<>>,
     freed_mb |-> 0, processed |-> <<>>]

\* variant: the analysis is swept whether or not it carries an error
SweepRunIgnoresError(analysis, f, thr, dry, gone, partial) ==
    LET st == SweepLoop(analysis.orphaned_directories, SweepStart(f),
                        thr, dry, gone, partial)
    IN  [fs |-> st.fs, processed |-> st.processed,
         report |-> [deleted  |-> st.deleted,
                     skipped  |-> st.skipped,
                     errors   |-> st.errors,
                     freed_mb |-> st.freed_mb,
                     dry_run  |-> dry]]

\* _sweep from its analysis on: the final loop state, or the error alone
SweepRun(analysis, f, thr, dry, gone, partial) ==
    IF IsError(analysis)
    THEN [fs |-> f, processed |-> <<>>,
          report |-> [error |-> analysis.error]]
    ELSE LET st == SweepLoop(analysis.orphaned_directories, SweepStart(f),
                             thr, dry, gone, partial)
         IN  [fs |-> st.fs, processed |-> st.processed,
              report |-> [deleted  |-> st.deleted,
                          skipped  |-> st.skipped,
                          errors   |-> st.errors,
                          freed_mb |-> st.freed_mb,
                          dry_run  |-> dry]]

NamesOf(s) == {s[i].name : i \in 1..Len(s)}

Range(s) == {s[i] : i \in 1..Len(s)}

(* ------------------------------ actions ------------------------------- *)

FaultyCount(f) == Cardinality({n \in Names : f[n].fault # "none"})

ActiveSets == {A \in SUBSET Names : Cardinality(A) <= MaxActive}

\* a total order on entries, used only to pick the initial states
EntryKey(e) ==
    LET k == CASE e.kind = "absent" -> 0 [] e.kind = "file" -> 1 [] OTHER -> 2
        x == CASE e.fault = "none" -> 0 [] e.fault = "stat" -> 1
               [] e.fault = "perm" -> 2 [] OTHER -> 3
    IN  ((k * 4 + x) * (MaxNow + 1) + e.mtime) * 200000 + e.size

\* Every listing order is drawn by the commands, so names are
\* interchangeable: the initial states hold one representative (entries in
\* key order) of each class of filesystems equal up to renaming.
Init ==
    /\ target \in {"missing", "dir"}
    /\ fs \in [Names -> Entries]
    /\ FaultyCount(fs) <= MaxFaulty
    /\ EntryKey(fs["cam1"]) <= EntryKey(fs["cam2"])
    /\ EntryKey(fs["cam2"]) <= EntryKey(fs["cam3"])
    /\ target = "missing" => fs = [n \in Names |-> Absent]
    /\ active \in ActiveSets
    /\ now = MaxNow - 1
    /\ days_old \in DaysOldValues
    /\ dry_run \in BOOLEAN
    /\ op = "none"
    /\ ret = NoReturn
    /\ pre = fs
    /\ scanned = <<>>
    /\ analysed = NoReturn
    /\ processed = <<>>
    /\ vanished = "nobody"
    /\ prev = NoPrev

NoHistory ==
    /\ op' = "none"
    /\ ret' = NoReturn
    /\ pre' = fs'
    /\ scanned' = <<>>
    /\ analysed' = NoReturn
    /\ processed' = <<>>
    /\ vanished' = "nobody"
    /\ prev' = NoPrev

\* the worker is idle: the reply of the last command has been taken
Idle == op = "none"

\* do_command({"command": "status"})
Status ==
    /\ Idle
    /\ \E raises \in BOOLEAN :
         /\ op' = "status"
         /\ ret' = StatusResult(target, fs, days_old, dry_run, raises)
         /\ pre' = fs
         /\ scanned' = <<>>
         /\ analysed' = NoReturn
         /\ processed' = <<>>
         /\ vanished' = "nobody"
         /\ prev' = NoPrev
         /\ UNCHANGED <<target, fs, active, now, days_old, dry_run>>

\* the orphans the scan loop appended, in that order
Scanned(analysis, listing) ==
    IF IsError(analysis) THEN <<>>
    ELSE ScanLoop(listing, fs, active, now, days_old)

\* do_command({"command": "analyze"})
Analyze ==
    /\ Idle
    /\ \E raises \in BOOLEAN :
       \E listing \in IF raises THEN {<<>>} ELSE Listings(fs) :
       \E analysis \in {AnalyzeResult(target, fs, active, now, days_old,
                                      listing, raises)} :
         /\ op' = "analyze"
         /\ ret' = analysis
         /\ pre' = fs
         /\ scanned' = Scanned(analysis, listing)
         /\ analysed' = NoReturn
         /\ processed' = <<>>
         /\ vanished' = "nobody"
         /\ prev' = NoPrev
         /\ UNCHANGED <<target, fs, active, now, days_old, dry_run>>

\* the orphans a live sweep will try to delete
Doomed(analysis, dry) ==
    IF dry \/ IsError(analysis) THEN {}
    ELSE NamesOf(EligibleOf(analysis.orphaned_directories))

\* those of them whose rmtree raises
Stuck(analysis, dry, f) ==
    {n \in Doomed(analysis, dry) : f[n].fault # "none"}

\* history: what a live sweep keeps of the report of the live sweep run
\* immediately before it
Remembered ==
    IF op = "sweep" /\ ~IsError(ret) /\ ~dry_run
    THEN IF ret.dry_run THEN NoPrev
         ELSE [valid   |-> TRUE,
               deleted |-> Range(ret.deleted),
               errors  |-> NamesOf(ret.errors)]
    ELSE NoPrev

\* a live sweep has just returned its report and the worker is still live
LiveSweepReturned ==
    op = "sweep" /\ ~dry_run /\ ~IsError(ret) /\ Remembered.valid

\* do_command({"command": "sweep"}), from idle or immediately after a live
\* sweep. gone names a directory another writer removes between the scan
\* and its rmtree; partial says whether a failing rmtree removes files
\* before it raises.
Sweep ==
    /\ Idle \/ LiveSweepReturned
    /\ \E raises \in BOOLEAN :
       \E listing \in IF raises THEN {<<>>} ELSE Listings(fs) :
       \E analysis \in {AnalyzeResult(target, fs, active, now, days_old,
                                      listing, raises)} :
       \E gone \in {"nobody"} \cup Doomed(analysis, dry_run) :
       \E partial \in {FALSE} \cup {Stuck(analysis, dry_run, fs) # {}} :
       \E run \in {SweepRun(analysis, fs, days_old, dry_run, gone, partial)} :
         /\ op' = "sweep"
         /\ ret' = run.report
         /\ fs' = run.fs
         /\ pre' = fs
         /\ scanned' = Scanned(analysis, listing)
         /\ analysed' = analysis
         /\ processed' = run.processed
         /\ vanished' = gone
         /\ prev' = Remembered
         /\ UNCHANGED <<target, active, now, days_old, dry_run>>

\* reconfigure: days_old and dry_run are replaced from the new attributes
Reconfigure ==
    /\ Idle
    /\ days_old' \in DaysOldValues
    /\ dry_run' \in BOOLEAN
    /\ <<days_old', dry_run'>> # <<days_old, dry_run>>
    /\ UNCHANGED <<target, fs, active, now>>
    /\ NoHistory

\* a newer cached_cloud_config_*.json appears: the names read from it change
CachedConfigChange ==
    /\ Idle
    /\ active' \in ActiveSets \ {active}
    /\ UNCHANGED <<target, fs, now, days_old, dry_run>>
    /\ NoHistory

\* the wall clock advances
Tick ==
    /\ Idle
    /\ now < MaxNow
    /\ now' = now + 1
    /\ UNCHANGED <<target, fs, active, days_old, dry_run>>
    /\ NoHistory

\* the caller takes the reply; the worker keeps nothing of the call
TakeReply ==
    /\ ~Idle
    /\ UNCHANGED <<target, fs, active, now, days_old, dry_run>>
    /\ NoHistory

Next ==
    \/ Status
    \/ Analyze
    \/ Sweep
    \/ Reconfigure
    \/ CachedConfigChange
    \/ Tick
    \/ TakeReply

Spec == Init /\ [][Next]_vars

(* ----------------------------- properties ----------------------------- *)

\* the analysis of the call that has just returned
LastAnalysis == IF op = "analyze" THEN ret ELSE analysed

Analysed == op \in {"analyze", "sweep"}

SweptOk == op = "sweep" /\ ~IsError(ret)

Orphans == LastAnalysis.orphaned_directories

Deleted == Range(ret.deleted)

Skipped == NamesOf(ret.skipped)

Failed == NamesOf(ret.errors)

\* the position of the entry named n in the sequence s
PosOf(s, n) == CHOOSE i \in 1..Len(s) : s[i].name = n

\* C1: in every sweep report that is not an error result, deleted, skipped
\* and errors hold no name twice, are pairwise disjoint, and together are
\* exactly the orphan names of the analysis the sweep ran, dry run or live,
\* whatever deletions fail.
C1_Partition ==
    SweptOk =>
        /\ Cardinality(Deleted) = Len(ret.deleted)
        /\ Cardinality(Skipped) = Len(ret.skipped)
        /\ Cardinality(Failed) = Len(ret.errors)
        /\ Deleted \cap Skipped = {}
        /\ Deleted \cap Failed = {}
        /\ Skipped \cap Failed = {}
        /\ Deleted \cup Skipped \cup Failed = NamesOf(Orphans)

\* a live sweep that deleted one orphan, skipped one and failed on one
C1_Witness ==
    /\ SweptOk
    /\ ~ret.dry_run
    /\ ret.deleted # <<>>
    /\ ret.skipped # <<>>
    /\ ret.errors # <<>>

\* C2: a sweep with dry_run = true leaves the children of target_path as
\* they were, so that (clock fixed) a following status counts the same
\* directories and a following analyze finds the same orphan names.
C2_DryRunLeavesFilesystem ==
    (op = "sweep" /\ dry_run) =>
        /\ fs = pre
        /\ StatusResult(target, fs, days_old, dry_run, FALSE).directory_count
             = StatusResult(target, pre, days_old, dry_run, FALSE).directory_count
        /\ \A listing \in Listings(pre) :
             NamesOf(AnalyzeResult(target, fs, active, now, days_old,
                                   listing, FALSE).orphaned_directories)
               = NamesOf(AnalyzeResult(target, pre, active, now, days_old,
                                       listing, FALSE).orphaned_directories)

\* a dry run that reported a deletion of a directory that is still there
C2_Witness ==
    /\ SweptOk
    /\ dry_run
    /\ ret.dry_run
    /\ \E n \in Deleted : fs[n].kind = "dir"

\* C3: every name in orphaned_directories names a child directory of
\* target_path at scan time and is not an active name; no active name is
\* ever in orphaned_directories, whatever the directory's age or size.
C3_OrphansAreInactiveDirectories ==
    Analysed =>
        /\ \A n \in NamesOf(Orphans) : pre[n].kind = "dir" /\ n \notin active
        /\ \A n \in active : n \notin NamesOf(Orphans)

\* an analyze call that met an active directory older than the threshold
\* beside an orphan
C3_Witness ==
    /\ op = "analyze"
    /\ ~IsError(ret)
    /\ Orphans # <<>>
    /\ \E n \in active :
         /\ pre[n].kind = "dir"
         /\ pre[n].fault = "none"
         /\ AgeDays(pre[n].mtime, now) >= days_old

\* the rmtree of the orphan named n raised in the sweep that just returned
RmtreeFailed(n) == n = vanished \/ pre[n].fault \in {"perm", "other"}

\* C4: in a live sweep an eligible orphan whose rmtree fails (permission
\* or any other failure, the directory having vanished included) is in
\* errors and not in deleted, its size is not part of freed_mb, every later
\* orphan is still processed, and the call returns a report.
C4_FailureIsIsolated ==
    (op = "sweep" /\ ~dry_run /\ ~IsError(analysed)) =>
        /\ DOMAIN ret = {"deleted", "skipped", "errors", "freed_mb", "dry_run"}
        /\ \A i \in 1..Len(Orphans) :
             (Orphans[i].eligible /\ RmtreeFailed(Orphans[i].name)) =>
                 /\ Orphans[i].name \in Failed
                 /\ Orphans[i].name \notin Deleted
                 /\ \A j \in (i + 1)..Len(Orphans) :
                      /\ Orphans[j].name \in Deleted \cup Skipped \cup Failed
                      /\ processed[j] = Orphans[j].name
        /\ ret.freed_mb =
             SumSizeMb(SelectSeq(Orphans, LAMBDA o : o.name \in Deleted))
        /\ \A n \in Deleted : ~RmtreeFailed(n)

\* a live sweep in which a deletion failed and a later orphan was deleted
C4_Witness ==
    /\ SweptOk
    /\ ~dry_run
    /\ \E i \in 1..Len(Orphans) : \E j \in (i + 1)..Len(Orphans) :
         /\ Orphans[i].eligible
         /\ RmtreeFailed(Orphans[i].name)
         /\ Orphans[i].size_mb > 0
         /\ Orphans[j].name \in Deleted

\* C5: when the analysis the sweep runs is error-flagged, the sweep
\* returns that error and nothing else and the filesystem is unchanged,
\* also with dry_run = false.
C5_ErrorAnalysisStopsSweep ==
    (op = "sweep" /\ IsError(analysed)) =>
        /\ DOMAIN ret = {"error"}
        /\ ret.error = analysed.error
        /\ fs = pre

\* a live sweep whose scan failed over an eligible orphan
C5_Witness ==
    /\ op = "sweep"
    /\ IsError(analysed)
    /\ ~dry_run
    /\ \E n \in Names :
         /\ pre[n].kind = "dir"
         /\ pre[n].fault = "none"
         /\ n \notin active
         /\ AgeDays(pre[n].mtime, now) >= days_old

\* C6: when target_path does not exist, analyze returns an error-flagged
\* result that echoes the active names in active_resources, with no
\* orphans and eligible_for_cleanup, total_orphans, recoverable_mb zero.
C6_MissingTargetEchoesActive ==
    (op = "analyze" /\ target = "missing") =>
        /\ IsError(ret)
        /\ ret.active_resources = active
        /\ ret.orphaned_directories = <<>>
        /\ ret.eligible_for_cleanup = 0
        /\ ret.total_orphans = 0
        /\ ret.recoverable_mb = 0

\* C7: an orphan entry is eligible exactly when its age_days is at least
\* days_old; eligible_for_cleanup counts the eligible entries; sweep skips
\* exactly the orphans that are not eligible.
C7_EligibleIffOldEnough ==
    (Analysed /\ ~IsError(LastAnalysis)) =>
        /\ \A i \in 1..Len(Orphans) :
             /\ Orphans[i].eligible <=> Orphans[i].age_days >= days_old
             /\ Orphans[i].age_days =
                  AgeDays(pre[Orphans[i].name].mtime, now)
        /\ LastAnalysis.eligible_for_cleanup =
             Cardinality({i \in 1..Len(Orphans) : Orphans[i].eligible})
        /\ op = "sweep" =>
             Skipped = {Orphans[i].name : i \in
                          {k \in 1..Len(Orphans) : ~Orphans[k].eligible}}

\* a sweep over one orphan exactly at the threshold and one a day short
C7_Witness ==
    /\ SweptOk
    /\ \E i, j \in 1..Len(Orphans) :
         /\ Orphans[i].age_days = days_old
         /\ Orphans[i].eligible
         /\ Orphans[j].age_days = days_old - 1
         /\ ~Orphans[j].eligible
         /\ Orphans[j].name \in Skipped

\* C8: orphaned_directories is ordered by size_mb descending, entries of
\* equal size_mb keep the order in which the scan produced them, and sweep
\* processes the orphans in that order.
C8_SortedStable ==
    (Analysed /\ ~IsError(LastAnalysis)) =>
        /\ Len(Orphans) = Len(scanned)
        /\ Range(Orphans) = Range(scanned)
        /\ \A i, j \in 1..Len(Orphans) :
             i < j =>
                 /\ Orphans[i].size_mb >= Orphans[j].size_mb
                 /\ Orphans[i].size_mb = Orphans[j].size_mb =>
                      PosOf(scanned, Orphans[i].name)
                        < PosOf(scanned, Orphans[j].name)
        /\ op = "sweep" =>
             processed = [i \in 1..Len(Orphans) |-> Orphans[i].name]

\* a sweep over three orphans, two of equal size, that the scan did not
\* produce in sorted order
C8_Witness ==
    /\ SweptOk
    /\ Len(Orphans) = 3
    /\ scanned # Orphans
    /\ Orphans[1].size_mb > Orphans[2].size_mb
    /\ Orphans[2].size_mb = Orphans[3].size_mb

\* C9: of two live sweeps run in immediate succession, nothing the first
\* deleted is an orphan (deleted, skipped or errors) of the second, and the
\* second deletes only what the first failed to delete.
C9_SecondLiveSweep ==
    (op = "sweep" /\ prev.valid /\ ~IsError(ret)) =>
        /\ prev.deleted \cap NamesOf(Orphans) = {}
        /\ prev.deleted \cap (Deleted \cup Skipped \cup Failed) = {}
        /\ Deleted \subseteq prev.errors

\* a second live sweep after one that deleted a directory and failed on
\* another, which it fails on again
C9_Witness ==
    /\ op = "sweep"
    /\ prev.valid
    /\ ~IsError(ret)
    /\ prev.deleted # {}
    /\ prev.errors \cap Failed # {}

\* C10: a live sweep removes nothing but child directories its own
\* analysis classified as orphaned and eligible: active directories,
\* orphans younger than the threshold, directories dropped from the
\* analysis and non-directories are as they were.
C10_OnlyEligibleOrphansRemoved ==
    op = "sweep" =>
        \A n \in Names :
            /\ fs[n] # pre[n] =>
                 /\ ~dry_run
                 /\ ~IsError(analysed)
                 /\ pre[n].kind = "dir"
                 /\ \E i \in 1..Len(Orphans) :
                      Orphans[i].name = n /\ Orphans[i].eligible
            /\ ( \/ n \in active
                 \/ pre[n].kind # "dir"
                 \/ pre[n].fault = "stat"
                 \/ AgeDays(pre[n].mtime, now) < days_old ) => fs[n] = pre[n]

\* a live sweep that deleted an orphan and left an active directory that
\* is older than the threshold
C10_Witness ==
    /\ SweptOk
    /\ ~dry_run
    /\ \E n \in Deleted : fs[n].kind = "absent"
    /\ \E n \in active :
         /\ fs[n].kind = "dir"
         /\ AgeDays(fs[n].mtime, now) >= days_old

====
